---- MODULE Spec2Model ----
(***************************************************************************)
(* Model of the NDVI analysis store of Satellite-Basic:                    *)
(*   app/services/vegetation_analysis.py  (VegetationAnalysis)             *)
(*   app/api/routes.py                    (analyze_vegetation,             *)
(*                                         analyze_area, get_map,          *)
(*                                         get_ndvi_map)                   *)
(*   app/models/vegetation.py             (NDVIAnalysis rows)              *)
(*                                                                         *)
(* A sample of a grid is a number or NaN.  A number is a fraction in       *)
(* lowest terms: Num(v) for an integer v, <<n, d, "/">> with d > 1         *)
(* otherwise; it stands for the float64 nearest to that quotient, which is  *)
(* what one float64 division of two integers gives.  The mean, a sum of    *)
(* several roundings, is computed in float64 arithmetic (see Mean).  The   *)
(* samples of a float32 array (astype(np.float32)) are float32 numbers     *)
(* (see Float32).                                                          *)
(***************************************************************************)
EXTENDS Integers, Sequences, FiniteSets, TLC

(***************************************************************************)
(* Bounds of the model.                                                    *)
(***************************************************************************)
MaxCalls == 2
MaxDim == 2

(***************************************************************************)
(* Python / numpy values.                                                  *)
(***************************************************************************)
None == "None"

\* Samples: a number, nan, or (in JSON) null.  A sample of a float32 array
\* shows its type: the number <<sign, m, e, "f32">> is sign * m * 2^e with m
\* odd and below 2^24 (zero is <<0, 0, 0, "f32">>), its nan is NaN32.
Num(v) == <<v>>
NaN == <<>>
NaN32 == <<0, 0, 0, "nan">>
JsonNull == <<"null", "null">>
IsNan(x) == Len(x) = 0 \/ x = NaN32
IsNull(x) == Len(x) = 2
IsSingle(x) == Len(x) = 4

\* Numerator and denominator of a number.
Val(x) == x[1]
Denom(x) == IF Len(x) = 3 THEN x[2] ELSE 1

\* vegetation_analysis.py:192  np.nan_to_num(ndvi_array, nan=-9999)
NAN_FILL == -9999

\* vegetation_analysis.py:165  max_retries = 3
max_retries == 3

\* np.ndarray.shape of a nested list: [] has shape (0,), a list of rows (R, C).
Shape(g) == IF Len(g) = 0 THEN <<0>> ELSE <<Len(g), Len(g[1])>>

\* np.squeeze drops every axis of length 1; this is the ndim that is left.
SqueezedNdim(g) == Cardinality({i \in DOMAIN Shape(g) : Shape(g)[i] # 1})


\* ndarray.flatten(): the samples in row-major order.
RECURSIVE Flatten(_)
Flatten(g) == IF Len(g) = 0 THEN <<>> ELSE Head(g) \o Flatten(Tail(g))

\* a[~np.isnan(a)]
NotNan(s) == SelectSeq(s, LAMBDA x : ~IsNan(x))

Abs(n) == IF n < 0 THEN -n ELSE n

RECURSIVE Gcd(_, _)
Gcd(a, b) == IF b = 0 THEN a ELSE Gcd(b, a % b)

\* The fraction n / d (d # 0) in lowest terms.
Reduced(n, d) ==
    IF Abs(d) \div Gcd(Abs(n), Abs(d)) = 1
    THEN Num((IF d < 0 THEN -n ELSE n) \div Gcd(Abs(n), Abs(d)))
    ELSE <<(IF d < 0 THEN -n ELSE n) \div Gcd(Abs(n), Abs(d)),
           Abs(d) \div Gcd(Abs(n), Abs(d)), "/">>

\* The float n / d (d # 0), n and d evaluated once.
Quot(n, d) == CHOOSE q \in {Reduced(x, y) : x \in {n}, y \in {d}} : TRUE


(***************************************************************************)
(* Float arithmetic of numpy: float64 (np.mean, line 122) and float32      *)
(* (astype(np.float32), lines 70, 144, 191).  A magnitude is a natural     *)
(* number written in LimbCount digits of base Base, least significant      *)
(* first; a fixed-point number is a sign and a magnitude counted in units  *)
(* of 2^-FracBits.  Every float64 the statistics meet (a sample, a partial *)
(* sum) is a whole number of these units, so the sums are exact integer    *)
(* sums followed by the rounding of the type: to Precision (float64) or    *)
(* Single (float32) significant bits, to nearest, ties to even.  Zero has  *)
(* no sign (-0.0 == 0.0).                                                  *)
(* Range: numerators below 2^30, denominators and counts below 2^15,       *)
(* quotients of magnitude at least 2^-20 (float32: at least 2^-50).        *)
(***************************************************************************)
Base == 2^15
LimbCount == 12
Limbs == 1..LimbCount
Precision == 53
Single == 24
FracBits == 75
MeanBits == 60

BigZero == [i \in Limbs |-> 0]
BigOf(n) == [i \in Limbs |-> IF i = 1 THEN n % Base ELSE IF i = 2 THEN n \div Base ELSE 0]
Pow2(k) == [i \in Limbs |-> IF i = (k \div 15) + 1 THEN 2^(k % 15) ELSE 0]

\* x * Base^k.
ShiftLimbs(x, k) == [i \in Limbs |-> IF i > k THEN x[i - k] ELSE 0]

\* x * 2^k.
ShiftBits(x, k) ==
    LET q == k \div 15
        b == k % 15
    IN  [i \in Limbs |->
            IF i <= q THEN 0
            ELSE ((x[i - q] * 2^b) % Base)
                 + (IF i - q > 1 THEN x[i - q - 1] \div 2^(15 - b) ELSE 0)]

RECURSIVE AddFrom(_, _, _, _)
AddFrom(x, y, i, carry) ==
    IF i > LimbCount THEN <<>>
    ELSE CHOOSE r \in {<<t % Base>> \o AddFrom(x, y, i + 1, t \div Base) :
                          t \in {x[i] + y[i] + carry}} : TRUE
BigAdd(x, y) == AddFrom(x, y, 1, 0)

\* x - y for x >= y.
RECURSIVE SubFrom(_, _, _, _)
SubFrom(x, y, i, borrow) ==
    IF i > LimbCount THEN <<>>
    ELSE CHOOSE r \in {IF t < 0 THEN <<t + Base>> \o SubFrom(x, y, i + 1, 1)
                                 ELSE <<t>> \o SubFrom(x, y, i + 1, 0) :
                          t \in {x[i] - y[i] - borrow}} : TRUE
BigSub(x, y) == SubFrom(x, y, 1, 0)

\* -1, 0 or 1 as x is below, equal to or above y.
BigCmp(x, y) ==
    IF \A i \in Limbs : x[i] = y[i] THEN 0
    ELSE IF \E i \in Limbs : x[i] > y[i] /\ \A j \in Limbs : j > i => x[j] = y[j]
         THEN 1 ELSE -1

\* Quotient and remainder of x by a small d, from the top digit down.
RECURSIVE DivFrom(_, _, _, _)
DivFrom(x, d, i, r) ==
    IF i = 0 THEN <<>>
    ELSE CHOOSE q \in {DivFrom(x, d, i - 1, t % d) \o <<t \div d>> :
                          t \in {(r * Base) + x[i]}} : TRUE
RECURSIVE RemFrom(_, _, _, _)
RemFrom(x, d, i, r) ==
    IF i = 0 THEN r
    ELSE CHOOSE q \in {RemFrom(x, d, i - 1, t % d) : t \in {(r * Base) + x[i]}} : TRUE
BigDiv(x, d) == DivFrom(x, d, LimbCount, 0)
BigRem(x, d) == RemFrom(x, d, LimbCount, 0)

\* Number of significant bits of x, and of trailing zero bits of x # 0.
BitLen(x) ==
    IF \A i \in Limbs : x[i] = 0 THEN 0
    ELSE LET t == CHOOSE i \in Limbs : x[i] # 0 /\ \A j \in Limbs : j > i => x[j] = 0
         IN  (15 * (t - 1)) + (CHOOSE k \in 1..15 : 2^(k - 1) <= x[t] /\ x[t] < 2^k)
TrailingZeros(x) ==
    LET t == CHOOSE i \in Limbs : x[i] # 0 /\ \A j \in Limbs : j < i => x[j] = 0
    IN  (15 * (t - 1))
           + (CHOOSE k \in 0..14 : (x[t] % 2^k) = 0 /\ (x[t] % 2^(k + 1)) # 0)

\* The k low bits of x, and bit k of x.
LowBits(x, k) ==
    [i \in Limbs |-> IF i <= (k \div 15) THEN x[i]
                     ELSE IF i = (k \div 15) + 1 THEN x[i] % 2^(k % 15) ELSE 0]
Bit(x, k) == (x[(k \div 15) + 1] \div 2^(k % 15)) % 2

\* x \div 2^k, the low four digits of it.
HighBits(x, k) ==
    LET q == k \div 15
        b == k % 15
    IN  [i \in 1..4 |->
            (IF i + q <= LimbCount THEN x[i + q] \div 2^b ELSE 0)
            + (IF i + q < LimbCount THEN (x[i + q + 1] % 2^b) * 2^(15 - b) ELSE 0)]

\* Rounding of x (plus a fraction that is not zero when inexact is TRUE) to
\* p significant bits (Precision for float64, Single for float32), to
\* nearest, ties to even.  drop is the number of bits that go.
RoundBits(x, drop, inexact) ==
    IF drop <= 0 THEN x
    ELSE LET half == BigCmp(LowBits(x, drop), Pow2(drop - 1))
             up == half > 0 \/ (half = 0 /\ (inexact \/ Bit(x, drop) = 1))
         IN  IF up THEN BigAdd(BigSub(x, LowBits(x, drop)), Pow2(drop))
                   ELSE BigSub(x, LowBits(x, drop))
Round(x, inexact, p) ==
    CHOOSE r \in {RoundBits(v, BitLen(v) - p, inexact) : v \in {x}} : TRUE

\* The float64 of a sample n / d, in units of 2^-FracBits.
FixedBody(n, d) ==
    IF n = 0 THEN [sign |-> 0, mag |-> BigZero]
    ELSE [sign |-> IF n < 0 THEN -1 ELSE 1,
          mag |-> Round(BigDiv(ShiftLimbs(BigOf(Abs(n)), FracBits \div 15), d),
                        BigRem(ShiftLimbs(BigOf(Abs(n)), FracBits \div 15), d) # 0,
                        Precision)]

\* A sample in units of 2^-FracBits: a float32 sample is that number, a
\* fraction the float64 nearest to it.
Fixed(x) ==
    IF IsSingle(x)
    THEN CHOOSE r \in {[sign |-> v[1], mag |-> ShiftBits(BigOf(v[2]), v[3] + FracBits)] :
                          v \in {x}} : TRUE
    ELSE CHOOSE r \in {FixedBody(n, d) : n \in {Val(x)}, d \in {Denom(x)}} : TRUE

\* a + b in floats of p significant bits.
FixedAddBody(a, b, p) ==
    IF a.sign = 0 THEN b
    ELSE IF b.sign = 0 THEN a
    ELSE IF a.sign = b.sign
    THEN [sign |-> a.sign, mag |-> Round(BigAdd(a.mag, b.mag), FALSE, p)]
    ELSE IF BigCmp(a.mag, b.mag) = 0 THEN [sign |-> 0, mag |-> BigZero]
    ELSE IF BigCmp(a.mag, b.mag) > 0
    THEN [sign |-> a.sign, mag |-> Round(BigSub(a.mag, b.mag), FALSE, p)]
    ELSE [sign |-> b.sign, mag |-> Round(BigSub(b.mag, a.mag), FALSE, p)]
FixedAdd(a, b, p) == CHOOSE r \in {FixedAddBody(x, y, p) : x \in {a}, y \in {b}} : TRUE

\* A float64 as the model shows it: <<sign, hi, lo, e, "f64">> is the number
\* sign * (hi * 2^30 + lo) * 2^e with an odd mantissa; zero is all zeros.
Float64Body(sign, mag, scale) ==
    IF sign = 0 THEN <<0, 0, 0, 0, "f64">>
    ELSE LET m == HighBits(mag, TrailingZeros(mag))
         IN  <<sign, m[3] + m[4] * Base, m[1] + m[2] * Base,
               TrailingZeros(mag) - scale, "f64">>
Float64(a, scale) == CHOOSE r \in {Float64Body(x.sign, x.mag, scale) : x \in {a}} : TRUE

\* float(x) of a sample.
Float(x) == Float64(Fixed(x), FracBits)

\* np.float32(x): the float64 x rounded to Single significant bits, shown as
\* <<sign, m, e, "f32">>; an integer of magnitude below 2^Single is a float32
\* as it is; a float32 and nan stay what they are, nan taking the type.
Float32(x) ==
    IF IsNan(x) THEN NaN32
    ELSE IF IsSingle(x) THEN x
    ELSE IF x = Num(0) THEN <<0, 0, 0, "f32">>
    ELSE IF Len(x) = 1 /\ Abs(Val(x)) < 2^Single
    THEN LET e == CHOOSE k \in 0..(Single - 1) :
                      Abs(Val(x)) % 2^k = 0 /\ (Abs(Val(x)) \div 2^k) % 2 = 1
         IN  <<IF Val(x) < 0 THEN -1 ELSE 1, Abs(Val(x)) \div 2^e, e, "f32">>
    ELSE CHOOSE r \in {LET m == HighBits(mag, TrailingZeros(mag))
                        IN  <<IF Val(x) < 0 THEN -1 ELSE 1, m[1] + m[2] * Base,
                              TrailingZeros(mag) - FracBits, "f32">> :
                        mag \in {Round(Fixed(x).mag, FALSE, Single)}} : TRUE

\* ndarray.astype(np.float32), sample by sample.
astype_float32(g) == [r \in DOMAIN g |-> [c \in DOMAIN g[r] |-> Float32(g[r][c])]]

\* np.array(json_list, dtype=np.float32): a JSON null (None) becomes nan, a
\* JSON number the float32 nearest to it.
FromJson(g) ==
    [r \in DOMAIN g |-> [c \in DOMAIN g[r] |->
        IF IsNull(g[r][c]) THEN NaN32 ELSE Float32(g[r][c])]]

\* np.nan_to_num(a, nan=-9999): every nan sample becomes the number -9999,
\* in the type of the array.
NanToNum(g) ==
    [r \in DOMAIN g |-> [c \in DOMAIN g[r] |->
        CHOOSE y \in {IF x = NaN32 THEN Float32(Num(NAN_FILL))
                      ELSE IF IsNan(x) THEN Num(NAN_FILL)
                      ELSE x : x \in {g[r][c]}} : TRUE]]


\* a <= b on floats in this form.
FloatMag(a, e) == ShiftBits(BigAdd(ShiftLimbs(BigOf(a[2]), 2), BigOf(a[3])), a[4] - e)
FloatLeBody(a, b) ==
    LET e == IF a[4] < b[4] THEN a[4] ELSE b[4]
        c == BigCmp(FloatMag(a, e), FloatMag(b, e))
    IN  IF a[1] # b[1] THEN a[1] < b[1]
        ELSE IF a[1] = 0 THEN TRUE
        ELSE IF a[1] > 0 THEN c <= 0 ELSE c >= 0
FloatLe(a, b) == CHOOSE r \in {FloatLeBody(x, y) : x \in {a}, y \in {b}} : TRUE

\* x <= y on samples of one array.
Le(x, y) ==
    IF IsSingle(x) \/ IsSingle(y) THEN FloatLe(Float(x), Float(y))
    ELSE Val(x) * Denom(y) <= Val(y) * Denom(x)

SeqMin(s) == s[CHOOSE i \in DOMAIN s : \A j \in DOMAIN s : Le(s[i], s[j])]
SeqMax(s) == s[CHOOSE i \in DOMAIN s : \A j \in DOMAIN s : Le(s[j], s[i])]

\* float(np.min(a)), float(np.max(a)): a Python float, which is a float64.
PyFloat(x) == IF IsSingle(x) THEN Float(x) ELSE x

\* The pairwise summation numpy's add.reduce runs on a contiguous array of
\* at most 128 elements, in the type of the array (p significant bits):
\* below 8 elements one accumulator from 0.0 upwards; from 8 on, eight
\* accumulators over the whole blocks of eight, added as
\* ((r0+r1)+(r2+r3))+((r4+r5)+(r6+r7)), then the rest one by one.
RECURSIVE SumFrom(_, _, _, _, _)
SumFrom(s, i, step, acc, p) ==
    IF i > Len(s) THEN acc
    ELSE SumFrom(s, i + step, step, FixedAdd(acc, Fixed(s[i]), p), p)
Whole(s) == SubSeq(s, 1, Len(s) - (Len(s) % 8))
PairwiseSum(s, p) ==
    IF Len(s) < 8
    THEN SumFrom(s, 1, 1, [sign |-> 0, mag |-> BigZero], p)
    ELSE LET r == [j \in 1..8 |-> SumFrom(Whole(s), j + 8, 8, Fixed(s[j]), p)]
         IN  SumFrom(s, Len(Whole(s)) + 1, 1,
                     FixedAdd(FixedAdd(FixedAdd(r[1], r[2], p), FixedAdd(r[3], r[4], p), p),
                              FixedAdd(FixedAdd(r[5], r[6], p), FixedAdd(r[7], r[8], p), p),
                              p),
                     p)

\* float(np.mean(a)): the sum divided by the count.  The quotient of the
\* sum (a scalar of the array's type) by the count (an np.intp) is taken in
\* float64; for a float32 array it is then rounded to float32.
MeanBody(sum, count, p) ==
    IF sum.sign = 0 THEN Float64(sum, FracBits + MeanBits)
    ELSE LET q == Round(BigDiv(ShiftLimbs(sum.mag, MeanBits \div 15), count),
                        BigRem(ShiftLimbs(sum.mag, MeanBits \div 15), count) # 0,
                        Precision)
         IN  Float64([sign |-> sum.sign,
                      mag |-> IF p = Single THEN Round(q, FALSE, Single) ELSE q],
                     FracBits + MeanBits)
Mean(s) ==
    CHOOSE r \in {MeanBody(sum, Len(s), p) :
                     sum \in {PairwiseSum(s, IF IsSingle(s[1]) THEN Single ELSE Precision)},
                     p \in {IF IsSingle(s[1]) THEN Single ELSE Precision}} : TRUE

\* compute_statistics without the filter of line 118 taking effect: every nan
\* sample counts with the fill value of np.nan_to_num.
compute_statistics_Filled(ndvi) ==
    LET ndvi_flat == Flatten(NanToNum(ndvi))
    IN  IF Len(ndvi_flat) = 0
        THEN [exc |-> "ValueError"]
        ELSE [exc |-> None,
              value |-> [min |-> PyFloat(SeqMin(ndvi_flat)),
                         max |-> PyFloat(SeqMax(ndvi_flat)),
                         mean |-> Mean(ndvi_flat)]]

\* VegetationAnalysis.compute_statistics: min, max and mean over the samples
\* that are not nan; np.min of an empty array raises ValueError.
compute_statistics(ndvi) ==
    LET ndvi_flat == NotNan(Flatten(ndvi))
    IN  IF Len(ndvi_flat) = 0
        THEN [exc |-> "ValueError"]
        ELSE [exc |-> None,
              value |-> [min |-> PyFloat(SeqMin(ndvi_flat)),
                         max |-> PyFloat(SeqMax(ndvi_flat)),
                         mean |-> Mean(ndvi_flat)]]


(***************************************************************************)
(* compute_ndvi (lines 34-60).                                             *)
(***************************************************************************)
\* Float arithmetic on samples: nan in, nan out.
FSub(a, b) ==
    IF IsNan(a) \/ IsNan(b) THEN NaN
    ELSE Quot(Val(a) * Denom(b) - Val(b) * Denom(a), Denom(a) * Denom(b))
FAdd(a, b) ==
    IF IsNan(a) \/ IsNan(b) THEN NaN
    ELSE Quot(Val(a) * Denom(b) + Val(b) * Denom(a), Denom(a) * Denom(b))
FDiv(a, b) ==
    IF IsNan(a) \/ IsNan(b) THEN NaN
    ELSE Quot(Val(a) * Denom(b), Denom(a) * Val(b))

\* x != 0 (nan != 0 is True) and np.isfinite(x).
NotZero(x) == IsNan(x) \/ Val(x) # 0
IsFinite(x) == ~IsNan(x)

\* numpy broadcasting of two 2-D shapes: axes agree or one of them is 1.
Broadcastable(s1, s2) == \A k \in 1..2 : s1[k] = s2[k] \/ s1[k] = 1 \/ s2[k] = 1
BroadcastShape(s1, s2) == [k \in 1..2 |-> IF s1[k] = 1 THEN s2[k] ELSE s1[k]]

\* The sample of g that broadcasting puts at (r, c).
At(g, r, c) == g[IF Len(g) = 1 THEN 1 ELSE r][IF Len(g[1]) = 1 THEN 1 ELSE c]

\* lines 51-53 at one pixel, written the other way round: (red - nir) / (nir + red).
NdviPixel_Swapped(red, nir) ==
    LET sum == FAdd(nir, red)
        ndvi == IF NotZero(sum) THEN FDiv(FSub(red, nir), sum) ELSE Num(0)
    IN  IF IsFinite(ndvi) THEN ndvi ELSE NaN

\* lines 51-55 at one pixel: the quotient where nir + red != 0, else the 0.0
\* of out=np.zeros_like(nir); then nan wherever the value is not finite.
NdviPixel(red, nir) ==
    LET sum == FAdd(nir, red)
        ndvi == IF NotZero(sum) THEN FDiv(FSub(nir, red), sum) ELSE Num(0)
    IN  IF IsFinite(ndvi) THEN ndvi ELSE NaN

\* fetch_band_data (lines 34-40): the dataset, or Exception when the status
\* is not 200.
fetch_band_data(status, band) ==
    IF status = 200 THEN [kind |-> "return", value |-> band]
    ELSE [kind |-> "raise", exc |-> "Exception"]

\* compute_ndvi that fetches both bands before it looks at either response.
BandRequests_Both(red_status, nir_status) == <<"red_url", "nir_url">>

\* lines 45-46: the urls compute_ndvi requests, in order.  The red band is
\* awaited first; when its fetch raises, line 46 is not reached.
BandRequests(red_status, nir_status) ==
    IF fetch_band_data(red_status, <<>>).kind = "raise"
    THEN <<"red_url">>
    ELSE <<"red_url", "nir_url">>

\* compute_ndvi (lines 42-60) on the two band responses.  nir - red raises
\* ValueError when the shapes do not broadcast; np.divide raises ValueError
\* when out (the shape of nir) is not the broadcast shape.
compute_ndvi(red_status, red, nir_status, nir) ==
    IF fetch_band_data(red_status, red).kind = "raise"
    THEN [kind |-> "raise", exc |-> fetch_band_data(red_status, red).exc]
    ELSE IF fetch_band_data(nir_status, nir).kind = "raise"
    THEN [kind |-> "raise", exc |-> fetch_band_data(nir_status, nir).exc]
    ELSE IF ~Broadcastable(Shape(red), Shape(nir))
    THEN [kind |-> "raise", exc |-> "ValueError"]
    ELSE IF BroadcastShape(Shape(red), Shape(nir)) # Shape(nir)
    THEN [kind |-> "raise", exc |-> "ValueError"]
    ELSE [kind |-> "return",
          value |-> [r \in 1..Shape(nir)[1] |-> [c \in 1..Shape(nir)[2] |->
                        NdviPixel(At(red, r, c), At(nir, r, c))]]]

\* Band rasters read(1) returns: rows x cols samples, all v but the first, w.
BandValues == {NaN, Num(-5), Num(0), Num(4), Num(100), Num(300)}
BandGrid(rows, cols, v, w) ==
    [r \in 1..rows |-> [c \in 1..cols |-> IF r = 1 /\ c = 1 THEN w ELSE v]]
BandGrids ==
    {BandGrid(rows, cols, v, w) : rows \in 1..MaxDim, cols \in 1..MaxDim,
                                  v \in BandValues, w \in BandValues}


(***************************************************************************)
(* Identifiers, inputs.                                                    *)
(***************************************************************************)
\* uuid.uuid4() values in the order they are generated: never equal to one
\* another nor to an identifier that already exists.
Uuid(n) == <<"uuid", n>>

\* Identifier of the row durable storage may hold when the process starts,
\* and an identifier no row and no call ever has.
StoredId == <<"row", 1>>
GhostId == <<"row", 0>>

\* Index grids handed to store_analysis: every sample valid, one sample
\* invalid, and a single row (shape (1, 2)).
GridValid == << <<Num(1), Num(0)>>, <<Num(0), Num(1)>> >>
GridNan == << <<Num(1), NaN>>, <<Num(0), Num(1)>> >>
GridRow == << <<Num(1), Num(0)>> >>
InputGrids == {GridValid, GridNan, GridRow}

\* A grid whose samples are all invalid, and the grids compute_statistics and
\* store_analysis are tried on, the empty grid included.
GridInvalid == << <<NaN, NaN>>, <<NaN, NaN>> >>
StoreGrids == InputGrids \cup {GridInvalid}
StatGrids == StoreGrids \cup {<< >>}

\* routes.py:120-126  bbox of the request polygon: min/max of the coordinates.
SetMin(S) == CHOOSE m \in S : \A x \in S : m <= x
SetMax(S) == CHOOSE m \in S : \A x \in S : m >= x
BboxOf(coords) ==
    << SetMin({coords[i][1] : i \in DOMAIN coords}),
       SetMin({coords[i][2] : i \in DOMAIN coords}),
       SetMax({coords[i][1] : i \in DOMAIN coords}),
       SetMax({coords[i][2] : i \in DOMAIN coords}) >>

\* test_workflow.py:12-18 request polygon (degrees, rounded to integers).
RequestCoords == << <<-98, 30>>, <<-98, 31>>, <<-97, 31>>, <<-97, 30>>, <<-98, 30>> >>
RequestName == "Test Analysis"

\* POST /analyze-area takes the bounding box and the dates as they are.
RequestBbox == <<-98, 30, -97, 31>>
AreaName == "Area Analysis 2024-01-01"

\* Bands of the first item a search returns: an index of 1/2 everywhere, the
\* same with one invalid sample, and rasters whose shapes do not go together.
RouteBands ==
    { <<BandGrid(2, 2, Num(100), Num(100)), BandGrid(2, 2, Num(300), Num(300))>>,
      <<BandGrid(2, 2, Num(100), NaN), BandGrid(2, 2, Num(300), Num(300))>>,
      <<BandGrid(2, 1, Num(100), Num(100)), BandGrid(1, 2, Num(300), Num(300))>> }

\* Metadata dictionaries callers pass: routes.py:147-152 (all four keys) and
\* test_simple_ndvi.py:24-28 (no bbox).
MetaFull == [name |-> RequestName, bbox |-> BboxOf(RequestCoords),
             red_url |-> "red", nir_url |-> "nir"]
MetaNoBbox == [name |-> RequestName, red_url |-> "red", nir_url |-> "nir"]
Metadatas == {MetaFull, MetaNoBbox}

\* dict.get(key) of a string-valued key: None when the key is missing.
DictGet(d, k) == IF k \in DOMAIN d THEN d[k] ELSE None

\* Truthiness of metadata.get('bbox') and metadata.get('name') (line 200).
HasBbox(metadata) == "bbox" \in DOMAIN metadata /\ Len(metadata.bbox) > 0
HasName(metadata) == "name" \in DOMAIN metadata /\ metadata.name # ""

(***************************************************************************)
(* Durable storage: rows of ndvi__analyses and the SQLAlchemy session.      *)
(***************************************************************************)
\* vegetation_analysis.py:204-210  Polygon of the bounding box.
Polygon(bbox) == << <<bbox[1], bbox[2]>>, <<bbox[3], bbox[2]>>, <<bbox[3], bbox[4]>>,
                    <<bbox[1], bbox[4]>>, <<bbox[1], bbox[2]>> >>

\* vegetation_analysis.py:212-220  the row _store builds.
NDVIAnalysis(analysis_id, metadata, ndvi_stats) ==
    [id |-> analysis_id,
     name |-> metadata.name,
     bbox |-> metadata.bbox,
     geometry |-> <<"SRID=4326", Polygon(metadata.bbox)>>,
     ndvi_stats |-> ndvi_stats,
     red_url |-> DictGet(metadata, "red_url"),
     nir_url |-> DictGet(metadata, "nir_url")]

\* JSON form of a grid: nan is written as null.
ToJson(g) == [r \in DOMAIN g |-> [c \in DOMAIN g[r] |-> IF IsNan(g[r][c]) THEN JsonNull ELSE g[r][c]]]

\* Rows the table may hold when the process starts.  A row as lines 202-220
\* build it has min, max and mean in ndvi_stats and nothing else; get_analysis
\* (line 143) also reads rows whose ndvi_stats has an "ndvi_array" key.
StatsOf(g) == compute_statistics(NanToNum(astype_float32(g))).value
RowStatsOnly == NDVIAnalysis(StoredId, MetaFull, StatsOf(GridNan))
RowWithArray(g) ==
    NDVIAnalysis(StoredId, MetaFull,
                 [min |-> StatsOf(g).min, max |-> StatsOf(g).max, mean |-> StatsOf(g).mean,
                  ndvi_array |-> ToJson(g)])
EmptyTable == [i \in {} |-> None]
InitialTables ==
    { EmptyTable,
      (StoredId :> RowStatsOnly),
      (StoredId :> RowWithArray(GridNan)),
      (StoredId :> RowWithArray(GridRow)) }

\* The session: its transaction is clean, has pending (added, uncommitted)
\* rows, or has failed in commit and awaits rollback.
\* A session as sessionmaker hands it out: no transaction, nothing pending.
\* rollbacks counts the calls of Session.rollback made on it.
CleanSession == [state |-> "clean", pending |-> {}, rollbacks |-> 0]

\* Session.add (line 222): the row is pending.  A session whose transaction
\* has failed stays failed until rollback.
DbAdd(sess, row) ==
    [sess EXCEPT !.state = IF @ = "failed" THEN "failed" ELSE "pending",
                 !.pending = @ \cup {row}]

\* Session.commit (line 223): the pending rows become durable, or the commit
\* raises and the session is left with the failed transaction.
DbCommit(sess, table, ok) ==
    IF ok
    THEN [exc |-> None, session |-> [sess EXCEPT !.state = "clean", !.pending = {}],
          table |-> [i \in DOMAIN table \cup {r.id : r \in sess.pending} |->
                        IF \E r \in sess.pending : r.id = i
                        THEN CHOOSE r \in sess.pending : r.id = i
                        ELSE table[i]]]
    ELSE [exc |-> "OperationalError",
          session |-> [sess EXCEPT !.state = "failed"],
          table |-> table]

\* Session.rollback (line 176): the transaction and its pending rows are dropped.
DbRollback(sess) == [state |-> "clean", pending |-> {}, rollbacks |-> sess.rollbacks + 1]

\* Session.commit on a session whose transaction has failed raises until the
\* session is rolled back.
Commit(sess, table, ok) == DbCommit(sess, table, ok /\ sess.state # "failed")

\* The session holds no pending and no failed transaction.
IsClean(sess) == sess.state = "clean" /\ sess.pending = {}

\* Session.query(NDVIAnalysis).filter(id == analysis_id).first()  (lines 137-139):
\* <<row>>, or <<>> for None.
QueryFirst(table, analysis_id) ==
    IF analysis_id \in DOMAIN table THEN <<table[analysis_id]>> ELSE <<>>


(***************************************************************************)
(* VegetationAnalysis                                                      *)
(***************************************************************************)
\* __init__ (lines 28-31): an empty cache and the optional session.
VegetationAnalysis(db) == [_analyses |-> [i \in {} |-> None], db |-> db]

Returned(v) == [kind |-> "return", value |-> v]
ReturnedNone == [kind |-> "none"]
Raised(e) == [kind |-> "raise", exc |-> e]

\* get_analysis, lines 141-156: the record rebuilt from a row.
RecordOfRow(db_analysis) ==
    LET stats == db_analysis.ndvi_stats
        listed == IF "ndvi_array" \in DOMAIN stats THEN stats.ndvi_array ELSE <<>>
        ndvi_array == FromJson(listed)
    IN  IF SqueezedNdim(ndvi_array) # 2
        THEN Raised("ValueError")
        ELSE Returned([ndvi_array |-> ndvi_array,
                       metadata |-> [name |-> db_analysis.name,
                                     bbox |-> db_analysis.bbox,
                                     stats |-> db_analysis.ndvi_stats]])

\* get_analysis without the "if db_analysis:" check of line 141: the row that
\* first() did not find is read all the same.
get_analysis_NoRowCheck(self, table, analysis_id) ==
    IF analysis_id \in DOMAIN self._analyses
    THEN Returned(self._analyses[analysis_id])
    ELSE IF self.db
         THEN IF Len(QueryFirst(table, analysis_id)) > 0
              THEN RecordOfRow(QueryFirst(table, analysis_id)[1])
              ELSE Raised("AttributeError")
         ELSE ReturnedNone

\* get_analysis (lines 128-161): the cache first, then the table.
get_analysis(self, table, analysis_id) ==
    IF analysis_id \in DOMAIN self._analyses
    THEN Returned(self._analyses[analysis_id])
    ELSE IF self.db /\ Len(QueryFirst(table, analysis_id)) > 0
         THEN RecordOfRow(QueryFirst(table, analysis_id)[1])
         ELSE ReturnedNone

\* get_analysis that keeps what it rebuilt from a row in the cache, in the
\* form _store caches (the array and the caller's metadata, without stats).
CacheAfterGet_ReadThrough(self, analysis_id, out) ==
    IF out.kind = "return" /\ analysis_id \notin DOMAIN self._analyses
    THEN (analysis_id :> [ndvi_array |-> out.value.ndvi_array,
                          metadata |-> [name |-> out.value.metadata.name,
                                        bbox |-> out.value.metadata.bbox]])
             @@ self._analyses
    ELSE self._analyses

\* get_analysis assigns nothing: this is the cache it leaves behind.
CacheAfterGet(self, analysis_id, out) == self._analyses

\* get_analysis that deletes the row it has read (a read that consumes).
TableAfterGet_Consumed(self, table, analysis_id) ==
    IF analysis_id \notin DOMAIN self._analyses /\ self.db
    THEN [i \in DOMAIN table \ {analysis_id} |-> table[i]]
    ELSE table

\* get_analysis only queries (lines 137-139): no add, no delete, no commit.
TableAfterGet(self, table, analysis_id) == table

\* create_map_display (lines 62-111): the overlay image and its bounds.
create_map_display(ndvi_array, bbox, title) ==
    IF SqueezedNdim(ndvi_array) # 2
    THEN Raised("ValueError")
    ELSE Returned([image |-> NanToNum(astype_float32(ndvi_array)),
                   bounds |-> << <<bbox[2], bbox[1]>>, <<bbox[4], bbox[3]>> >>,
                   title |-> title])

\* Names _store assigns (lines 184, 187, 191, 192, 202, 204, 212).  _store has
\* no nonlocal statement, so each of them is a local of _store, unbound until
\* its first assignment has run.
StoreAssigned == {"analysis_id", "ndvi_array", "ndvi_stats", "polygon", "db_analysis"}
StoreNonlocal == {}
IsLocalOfStore(name) == name \in StoreAssigned \ StoreNonlocal

\* _store, lines 187-225, once ndvi_array is bound.
StoreBody(self, sess, table, ndvi_array, metadata, analysis_id, commit_ok) ==
    IF SqueezedNdim(ndvi_array) # 2
    THEN [exc |-> "ValueError", _analyses |-> self._analyses, session |-> sess, table |-> table]
    ELSE
      LET filled == NanToNum(astype_float32(ndvi_array))
          cached == (analysis_id :> [ndvi_array |-> filled, metadata |-> metadata])
                        @@ self._analyses
      IN  IF self.db /\ HasBbox(metadata) /\ HasName(metadata)
          THEN LET ndvi_stats == compute_statistics(filled)
                   row == NDVIAnalysis(analysis_id, metadata, ndvi_stats.value)
                   done == Commit(DbAdd(sess, row), table, commit_ok)
               IN  IF ndvi_stats.exc # None
                   THEN [exc |-> ndvi_stats.exc, _analyses |-> cached,
                         session |-> sess, table |-> table]
                   ELSE [exc |-> done.exc, value |-> analysis_id, _analyses |-> cached,
                         session |-> done.session, table |-> done.table]
          ELSE [exc |-> None, value |-> analysis_id, _analyses |-> cached,
                session |-> sess, table |-> table]

\* _store that adds the row to the session (line 222) before the statement
\* that raises.
_store_AddsFirst(self, sess, table, ndvi_array, metadata, analysis_id, commit_ok) ==
    [exc |-> "UnboundLocalError", _analyses |-> self._analyses,
     session |-> IF self.db /\ HasBbox(metadata) /\ HasName(metadata)
                 THEN DbAdd(sess, NDVIAnalysis(analysis_id, metadata, [i \in {} |-> None]))
                 ELSE sess,
     table |-> table]

\* _store that writes the record in two commits, identifier and name first
\* and the other columns afterwards, with the statement that raises in
\* between.
_store_WritesFirst(self, sess, table, ndvi_array, metadata, analysis_id, commit_ok) ==
    IF self.db /\ HasBbox(metadata) /\ HasName(metadata)
    THEN LET done == Commit(DbAdd(sess, [id |-> analysis_id, name |-> metadata.name]),
                            table, commit_ok)
         IN  [exc |-> IF done.exc # None THEN done.exc ELSE "UnboundLocalError",
              _analyses |-> self._analyses,
              session |-> done.session, table |-> done.table]
    ELSE [exc |-> "UnboundLocalError", _analyses |-> self._analyses,
          session |-> sess, table |-> table]

\* _store that inserts the cache entry (line 195) before the statement that
\* raises.
_store_CachesFirst(self, sess, table, ndvi_array, metadata, analysis_id, commit_ok) ==
    [exc |-> "UnboundLocalError",
     _analyses |-> (analysis_id :> [ndvi_array |-> ndvi_array, metadata |-> metadata])
                      @@ self._analyses,
     session |-> sess, table |-> table]

\* store_analysis._store (lines 182-229).  Line 187 reads ndvi_array before
\* _store has assigned it.
_store(self, sess, table, ndvi_array, metadata, analysis_id, commit_ok) ==
    IF IsLocalOfStore("ndvi_array")
    THEN [exc |-> "UnboundLocalError", _analyses |-> self._analyses,
          session |-> sess, table |-> table]
    ELSE StoreBody(self, sess, table, ndvi_array, metadata, analysis_id, commit_ok)


(***************************************************************************)
(* State.                                                                  *)
(***************************************************************************)
VARIABLES
    va,          \* the VegetationAnalysis instance in use: cache and db flag
    session,     \* the SQLAlchemy session given to it
    table,       \* committed rows of ndvi__analyses, by id
    tasks,       \* per task: the position of its _execute_with_retry call
    uuid_count,  \* how many uuid4 values have been generated
    ncalls,      \* how many calls have been started
    lastGet,     \* the latest get_analysis call and the one before it
    http,        \* the latest HTTP response of the routes
    ndvi         \* a compute_ndvi call: its bands, its result, the statistics

vars == <<va, session, table, tasks, uuid_count, ncalls, lastGet, http, ndvi>>

\* Tasks of the event loop that call into the instance.
Tasks == DOMAIN tasks

IdleTask == [pc |-> "idle"]
NoGet == [called |-> FALSE]
NoResponse == [route |-> "none"]
NoNdvi == [pc |-> "none"]

Running(t) == tasks[t].pc \in {"attempt", "sleep"}
Ended(t) == tasks[t].pc \in {"returned", "raised"}

Init ==
    /\ va \in {VegetationAnalysis(db) : db \in BOOLEAN}
    /\ session = CleanSession
    /\ table \in InitialTables
    /\ tasks = [t \in {"task1"} |-> IdleTask]
    /\ uuid_count = 0
    /\ ncalls = 0
    /\ lastGet = NoGet
    /\ http = NoResponse
    /\ ndvi = NoNdvi

(***************************************************************************)
(* _execute_with_retry (lines 163-177).                                    *)
(***************************************************************************)
\* line 168: for attempt in range(max_retries)
InRange(attempt) == attempt < max_retries

\* What a caller gets when a function ends without a return statement.
NoneId == <<"None", 0>>

\* line 172 comparing with max_retries instead of max_retries - 1.
IsLastAttempt_OffByOne(attempt) == attempt = max_retries

\* line 172: the attempt that failed was the last one.
IsLastAttempt(attempt) == attempt = max_retries - 1

\* lines 175-176 left out: the retry goes on without a rollback.
RollbackBeforeRetry_Skipped(self, sess) == sess

\* lines 175-176: rollback between a failed attempt and the next one.
RollbackBeforeRetry(self, sess) == IF self.db THEN DbRollback(sess) ELSE sess

\* await operation() (line 170): the operation is the closure _store that
\* store_analysis passes (line 231).
operation(call, self, sess, tbl, analysis_id, commit_ok) ==
    _store(self, sess, tbl, call.ndvi_array, call.metadata, analysis_id, commit_ok)

\* The instance and the session a call runs on: those of the direct caller,
\* or the ones the route made for its request (routes.py:59, 129).
SelfOf(t) == IF tasks[t].caller = "direct" THEN va ELSE tasks[t].self
SessionOf(t) == IF tasks[t].caller = "direct" THEN session ELSE tasks[t].session

\* What a route answers once its store_analysis call has ended: the except
\* clause turns any exception into 500 with its text (routes.py:86-88,
\* 165-166); analyze_area returns the identifier (routes.py:84);
\* analyze_vegetation computes the statistics of the grid first
\* (routes.py:154-163).
PostResponse(call, out) ==
    IF out.exc # None
    THEN [route |-> call.caller, status |-> 500, detail |-> out.exc]
    ELSE IF call.caller = "analyze_area"
    THEN [route |-> call.caller, status |-> 200, analysis_id |-> out.value]
    ELSE LET stats == compute_statistics(call.ndvi_array)
         IN  IF stats.exc # None
             THEN [route |-> call.caller, status |-> 500, detail |-> stats.exc]
             ELSE [route |-> call.caller, status |-> 200,
                   analysis_id |-> out.value, name |-> call.metadata.name,
                   statistics |-> stats.value, bbox |-> call.metadata.bbox]

\* A call begins: for attempt in range(max_retries), attempt = 0.  ids and
\* excs log the identifier and the outcome of each attempt, rolled the calls
\* of rollback the loop has made.
NewCall(ndvi_array, metadata, caller) ==
    [pc |-> "attempt", attempt |-> 0, ndvi_array |-> ndvi_array,
     metadata |-> metadata, caller |-> caller, ids |-> <<>>, excs |-> <<>>,
     rolled |-> 0]

\* store_analysis(ndvi_array, metadata) is called on the instance (line 231).
store_analysis(t, ndvi_array, metadata) ==
    /\ ~Running(t)
    /\ ncalls < MaxCalls
    /\ tasks' = [tasks EXCEPT ![t] = NewCall(ndvi_array, metadata, "direct")]
    /\ ncalls' = ncalls + 1
    /\ lastGet' = NoGet
    /\ http' = NoResponse
    /\ UNCHANGED <<va, session, table, uuid_count, ndvi>>

\* One pass of the loop body: await operation(), then return, raise, or roll
\* back and go to sleep (lines 169-177).
Attempt(t) ==
    /\ tasks[t].pc = "attempt"
    /\ \E commit_ok \in BOOLEAN :
      \E out \in {operation(tasks[t], SelfOf(t), SessionOf(t), table,
                            Uuid(uuid_count + 1), commit_ok)} :
        LET call == tasks[t]
            analysis_id == Uuid(uuid_count + 1)
            ends == out.exc = None \/ IsLastAttempt(call.attempt)
            sess == IF ends THEN out.session
                    ELSE RollbackBeforeRetry(SelfOf(t), out.session)
            ran == [call EXCEPT !.ids = Append(@, analysis_id),
                                !.excs = Append(@, out.exc),
                                !.rolled = @ + (sess.rollbacks - out.session.rollbacks)]
            after == IF out.exc = None
                     THEN [ran EXCEPT !.pc = "returned"] @@ [result |-> out.value]
                     ELSE IF IsLastAttempt(call.attempt)
                     THEN [ran EXCEPT !.pc = "raised"] @@ [exc |-> out.exc]
                     ELSE [ran EXCEPT !.pc = "sleep"]
        IN  /\ uuid_count' = uuid_count + 1
            /\ table' = out.table
            /\ IF call.caller = "direct"
               THEN /\ va' = [va EXCEPT !._analyses = out._analyses]
                    /\ session' = sess
                    /\ tasks' = [tasks EXCEPT ![t] = after]
               ELSE /\ tasks' = [tasks EXCEPT ![t] =
                                    [after EXCEPT !.self._analyses = out._analyses,
                                                  !.session = sess]]
                    /\ UNCHANGED <<va, session>>
            /\ http' = IF ends /\ call.caller # "direct"
                       THEN PostResponse(call, out) ELSE NoResponse
    /\ lastGet' = NoGet
    /\ UNCHANGED <<ncalls, ndvi>>

\* asyncio.sleep(retry_delay) is over: the loop goes to the next attempt, or,
\* with range(max_retries) used up, the function ends and returns None.
Wake(t) ==
    /\ tasks[t].pc = "sleep"
    /\ tasks' = [tasks EXCEPT ![t] =
                    IF InRange(@.attempt + 1)
                    THEN [@ EXCEPT !.pc = "attempt", !.attempt = @ + 1]
                    ELSE [@ EXCEPT !.pc = "returned"] @@ [result |-> NoneId]]
    /\ UNCHANGED <<va, session, table, uuid_count, ncalls, lastGet, http, ndvi>>

(***************************************************************************)
(* Retrieval, instances, routes.                                           *)
(***************************************************************************)
\* get_analysis(analysis_id) is called on the instance.
GetAnalysis(analysis_id) ==
    LET out == get_analysis(va, table, analysis_id)
    IN  /\ lastGet' = [called |-> TRUE, id |-> analysis_id, out |-> out,
                       prev |-> IF lastGet.called /\ lastGet.id = analysis_id
                                THEN <<lastGet.out>> ELSE <<>>]
        /\ va' = [va EXCEPT !._analyses = CacheAfterGet(va, analysis_id, out)]
        /\ table' = TableAfterGet(va, table, analysis_id)
        /\ http' = NoResponse
        /\ UNCHANGED <<session, tasks, uuid_count, ncalls, ndvi>>

\* The process restarts, or a caller constructs another instance with a
\* session of its own: the cache is empty again, the table is what it was.
NewInstance(db) ==
    /\ \A t \in Tasks : ~Running(t)
    /\ va' = VegetationAnalysis(db)
    /\ session' = CleanSession
    /\ tasks' = [t \in Tasks |-> IdleTask]
    /\ lastGet' = NoGet
    /\ http' = NoResponse
    /\ UNCHANGED <<table, uuid_count, ncalls, ndvi>>

\* The two POST routes up to their call of store_analysis: an instance of
\* the request's own on the request's session, the imagery search, then
\* compute_ndvi on the first item's bands.  An empty search raises the 404
\* HTTPException inside the try block, a failing search or compute_ndvi
\* raises its exception there; the except clause answers each with 500 and
\* store_analysis is not called.  A request does not wait for other requests.
PostRoute(t, route, name, bbox, search, red_status, red, nir_status, nir) ==
    /\ ~Running(t)
    /\ ncalls < MaxCalls
    /\ ncalls' = ncalls + 1
    /\ lastGet' = NoGet
    /\ \E ndvi_result \in {compute_ndvi(red_status, red, nir_status, nir)} :
          IF search = "items" /\ ndvi_result.kind = "return"
          THEN /\ tasks' = [tasks EXCEPT ![t] =
                               NewCall(ndvi_result.value,
                                       [name |-> name, bbox |-> bbox,
                                        red_url |-> "red", nir_url |-> "nir"], route)
                               @@ [self |-> VegetationAnalysis(TRUE),
                                   session |-> CleanSession]]
               /\ http' = NoResponse
          ELSE /\ tasks' = [tasks EXCEPT ![t] = IdleTask]
               /\ http' = [route |-> route, status |-> 500,
                           detail |-> IF search = "empty" THEN "HTTPException"
                                      ELSE IF search = "error" THEN "KeyError"
                                      ELSE ndvi_result.exc]
    /\ UNCHANGED <<va, session, table, uuid_count, ndvi>>

\* POST /vegetation/ndvi (routes.py:112-166): the bounding box of the request
\* polygon, the name of the request.
analyze_vegetation(t, search, red_status, red, nir_status, nir) ==
    PostRoute(t, "analyze_vegetation", RequestName, BboxOf(RequestCoords),
              search, red_status, red, nir_status, nir)

\* POST /analyze-area (routes.py:49-88): the bounding box as given, the name
\* made of the start date.
analyze_area(t, search, red_status, red, nir_status, nir) ==
    PostRoute(t, "analyze_area", AreaName, RequestBbox,
              search, red_status, red, nir_status, nir)

\* GET /visualization/map/{analysis_id} (routes.py:168-190): an instance of
\* its own on the request's session, get_analysis, create_map_display.
get_map(analysis_id) ==
    LET own == VegetationAnalysis(TRUE)
        analysis == get_analysis(own, table, analysis_id)
        posted == http.route = "analyze_vegetation" /\ http.status = 200
                     /\ http.analysis_id = analysis_id
        shown == create_map_display(analysis.value.ndvi_array, analysis.value.metadata.bbox,
                                    <<"NDVI Analysis: ", analysis.value.metadata.name>>)
    IN  /\ http' =
              IF analysis.kind = "raise"
              THEN [route |-> "get_map", posted |-> posted, status |-> 500, id |-> analysis_id, detail |-> analysis.exc]
              ELSE IF analysis.kind = "none"
              THEN [route |-> "get_map", posted |-> posted, status |-> 500, id |-> analysis_id, detail |-> "HTTPException"]
              ELSE IF shown.kind = "raise"
              THEN [route |-> "get_map", posted |-> posted, status |-> 500, id |-> analysis_id, detail |-> shown.exc]
              ELSE [route |-> "get_map", posted |-> posted, status |-> 200, id |-> analysis_id, body |-> shown.value]
        /\ lastGet' = NoGet
        /\ UNCHANGED <<va, session, table, tasks, uuid_count, ncalls, ndvi>>

\* GET /ndvi-map/{analysis_id} (routes.py:25-47): the same steps; the 404 it
\* raises for a missing record is raised inside the try block, whose
\* except Exception clause answers 500 with the text of what it caught.
get_ndvi_map(analysis_id) ==
    LET own == VegetationAnalysis(TRUE)
        analysis == get_analysis(own, table, analysis_id)
        posted == http.route = "analyze_vegetation" /\ http.status = 200
                     /\ http.analysis_id = analysis_id
        shown == create_map_display(analysis.value.ndvi_array, analysis.value.metadata.bbox,
                                    <<"NDVI Analysis: ", analysis.value.metadata.name>>)
    IN  /\ http' =
              IF analysis.kind = "raise"
              THEN [route |-> "get_ndvi_map", posted |-> posted, status |-> 500, id |-> analysis_id, detail |-> analysis.exc]
              ELSE IF analysis.kind = "none"
              THEN [route |-> "get_ndvi_map", posted |-> posted, status |-> 500, id |-> analysis_id, detail |-> "HTTPException"]
              ELSE IF shown.kind = "raise"
              THEN [route |-> "get_ndvi_map", posted |-> posted, status |-> 500, id |-> analysis_id, detail |-> shown.exc]
              ELSE [route |-> "get_ndvi_map", posted |-> posted, status |-> 200, id |-> analysis_id, body |-> shown.value]
        /\ lastGet' = NoGet
        /\ UNCHANGED <<va, session, table, tasks, uuid_count, ncalls, ndvi>>

\* Identifiers a caller asks for: the one the table may hold from the start,
\* the one generated last, and one that never existed.
KnownIds == {StoredId, GhostId} \cup {Uuid(n) : n \in {uuid_count} \ {0}}

Next ==
    \/ \E t \in Tasks, g \in InputGrids, m \in Metadatas : store_analysis(t, g, m)
    \/ \E t \in Tasks : Attempt(t)
    \/ \E t \in Tasks : Wake(t)
    \/ \E i \in KnownIds : GetAnalysis(i)
    \/ \E db \in BOOLEAN : NewInstance(db)
    \/ \E t \in Tasks, s \in {"items", "empty", "error"}, b \in RouteBands,
          red_status \in {200, 404}, nir_status \in {200, 404} :
          analyze_vegetation(t, s, red_status, b[1], nir_status, b[2])
    \/ \E t \in Tasks, s \in {"items", "empty", "error"}, b \in RouteBands,
          red_status \in {200, 404}, nir_status \in {200, 404} :
          analyze_area(t, s, red_status, b[1], nir_status, b[2])
    \/ \E i \in KnownIds : get_map(i)
    \/ \E i \in KnownIds : get_ndvi_map(i)

Spec == Init /\ [][Next]_vars

\* store_analysis and the retry loop it runs _store in.
NextRetry ==
    \/ \E t \in Tasks, g \in InputGrids, m \in Metadatas : store_analysis(t, g, m)
    \/ \E t \in Tasks : Attempt(t)
    \/ \E t \in Tasks : Wake(t)
    \/ \E db \in BOOLEAN : NewInstance(db)

SpecRetry == Init /\ [][NextRetry]_vars

(***************************************************************************)
(* Concurrent calls: two tasks of one event loop, store_analysis calls on   *)
(* one instance and requests of the POST routes, each on an instance of    *)
(* its own, interleaved where a call awaits (the sleep of line 177).       *)
(***************************************************************************)
InitConcurrent ==
    /\ va \in {VegetationAnalysis(db) : db \in BOOLEAN}
    /\ session = CleanSession
    /\ table \in InitialTables
    /\ tasks = [t \in {"task1", "task2"} |-> IdleTask]
    /\ uuid_count = 0
    /\ ncalls = 0
    /\ lastGet = NoGet
    /\ http = NoResponse
    /\ ndvi = NoNdvi

NextConcurrent ==
    \/ \E t \in Tasks, g \in InputGrids, m \in Metadatas : store_analysis(t, g, m)
    \/ \E t \in Tasks : Attempt(t)
    \/ \E t \in Tasks : Wake(t)
    \/ \E t \in Tasks, s \in {"items", "empty", "error"}, b \in RouteBands,
          red_status \in {200, 404}, nir_status \in {200, 404} :
          analyze_vegetation(t, s, red_status, b[1], nir_status, b[2])
    \/ \E t \in Tasks, s \in {"items", "empty", "error"}, b \in RouteBands,
          red_status \in {200, 404}, nir_status \in {200, 404} :
          analyze_area(t, s, red_status, b[1], nir_status, b[2])

SpecConcurrent == InitConcurrent /\ [][NextConcurrent]_vars

(***************************************************************************)
(* compute_ndvi and compute_statistics as calls of their own.              *)
(***************************************************************************)
\* The two bands the urls resolve to.
InitNdvi ==
    /\ va = VegetationAnalysis(FALSE)
    /\ session = CleanSession
    /\ table = EmptyTable
    /\ tasks = [t \in {"task1"} |-> IdleTask]
    /\ uuid_count = 0
    /\ ncalls = 0
    /\ lastGet = NoGet
    /\ http = NoResponse
    /\ ndvi \in {[pc |-> "bands", red |-> red, nir |-> nir] : red \in BandGrids, nir \in BandGrids}

\* await va.compute_ndvi(red_url, nir_url)
ComputeNdvi(red_status, nir_status) ==
    /\ ndvi.pc = "bands"
    /\ ndvi' = [pc |-> "computed", red |-> ndvi.red, nir |-> ndvi.nir,
                fetched |-> red_status = 200 /\ nir_status = 200,
                status |-> <<red_status, nir_status>>,
                requests |-> BandRequests(red_status, nir_status),
                out |-> compute_ndvi(red_status, ndvi.red, nir_status, ndvi.nir)]
    /\ UNCHANGED <<va, session, table, tasks, uuid_count, ncalls, lastGet, http>>

\* await va.compute_statistics(ndvi_result) on what compute_ndvi returned
\* (routes.py:141, 155).
ComputeStatistics ==
    /\ ndvi.pc = "computed"
    /\ ndvi.out.kind = "return"
    /\ ndvi' = [pc |-> "statistics", red |-> ndvi.red, nir |-> ndvi.nir,
                fetched |-> ndvi.fetched, status |-> ndvi.status,
                requests |-> ndvi.requests, out |-> ndvi.out,
                stats |-> compute_statistics(ndvi.out.value)]
    /\ UNCHANGED <<va, session, table, tasks, uuid_count, ncalls, lastGet, http>>

NextNdvi ==
    \/ \E red_status \in {200, 404}, nir_status \in {200, 404} : ComputeNdvi(red_status, nir_status)
    \/ ComputeStatistics

SpecNdvi == InitNdvi /\ [][NextNdvi]_vars

(***************************************************************************)
(* compute_statistics and store_analysis on grids with invalid samples.    *)
(***************************************************************************)
\* await VegetationAnalysis.compute_statistics(ndvi) on a grid of the caller's.
Statistics(g) ==
    /\ ndvi' = [pc |-> "statistics", out |-> [kind |-> "return", value |-> g],
                stats |-> compute_statistics(g)]
    /\ UNCHANGED <<va, session, table, tasks, uuid_count, ncalls, lastGet, http>>

NextStats ==
    \/ \E g \in StatGrids : Statistics(g)
    \/ \E t \in Tasks, g \in StoreGrids, m \in Metadatas : store_analysis(t, g, m)
    \/ \E t \in Tasks : Attempt(t)
    \/ \E t \in Tasks : Wake(t)

SpecStats == Init /\ [][NextStats]_vars


(***************************************************************************)
(* Properties.                                                             *)
(***************************************************************************)
IdsOf(t) == {tasks[t].ids[k] : k \in DOMAIN tasks[t].ids}
HasValid(g) == \E r \in DOMAIN g : \E c \in DOMAIN g[r] : ~IsNan(g[r][c])
\* A store_analysis call has been made on the task.
IsStoreCall(t) == tasks[t].pc # "idle"
\* A row as _store builds it: ndvi_stats holds min, max and mean only.
WrittenByStore(row) == DOMAIN row.ndvi_stats = {"min", "max", "mean"}
\* Equality of numbers, whatever the type that holds them.
SameNumber(x, y) ==
    \/ IsNan(x) /\ IsNan(y)
    \/ /\ ~IsNan(x) /\ ~IsNan(y)
       /\ (IF Len(x) = 5 THEN x ELSE Float(x)) = (IF Len(y) = 5 THEN y ELSE Float(y))
SameStats(a, b) ==
    SameNumber(a.min, b.min) /\ SameNumber(a.max, b.max) /\ SameNumber(a.mean, b.mean)
SameGrid(g, h) ==
    /\ Shape(g) = Shape(h)
    /\ \A r \in DOMAIN g : \A c \in DOMAIN g[r] : SameNumber(g[r][c], h[r][c])

\* C1: store_analysis on a 2-D grid, with no storage failure, returns an
\* identifier on its first attempt (no retry), and get_analysis of that
\* identifier on the same instance returns a record whose metadata name is the
\* name passed to store_analysis.
C1_StoreReturnsOnFirstAttempt ==
    \A t \in Tasks :
        (IsStoreCall(t) /\ SqueezedNdim(tasks[t].ndvi_array) = 2)
        => /\ tasks[t].pc \in {"attempt", "returned"}
           /\ tasks[t].attempt = 0
           /\ tasks[t].pc = "returned" =>
                 LET got == get_analysis(va, table, tasks[t].result)
                 IN  /\ got.kind = "return"
                     /\ got.value.metadata.name = tasks[t].metadata.name

\* C2: for an identifier that is not in the cache and has a row in the table
\* written by store_analysis, get_analysis returns a record (grid, name,
\* bounding box, statistics) rebuilt from the row; it does not raise.
C2_DurableHitReturnsRecord ==
    ( /\ lastGet.called
      /\ va.db
      /\ lastGet.id \notin DOMAIN va._analyses
      /\ lastGet.id \in DOMAIN table
      /\ WrittenByStore(table[lastGet.id]) )
    => /\ lastGet.out.kind = "return"
       /\ SqueezedNdim(lastGet.out.value.ndvi_array) = 2
       /\ lastGet.out.value.metadata.name = table[lastGet.id].name
       /\ lastGet.out.value.metadata.bbox = table[lastGet.id].bbox

\* C3: round trip: once store_analysis has run on a grid with at least one
\* valid pixel, the statistics in the table, and those a retrieval with an
\* empty cache returns, are the min, max and mean over the valid pixels of the
\* grid that was given.
C3_RoundTripStatistics ==
    \A t \in Tasks :
        ( /\ IsStoreCall(t) /\ Ended(t)
          /\ SelfOf(t).db /\ HasBbox(tasks[t].metadata) /\ HasName(tasks[t].metadata)
          /\ SqueezedNdim(tasks[t].ndvi_array) = 2 /\ HasValid(tasks[t].ndvi_array) )
        => \E i \in IdsOf(t) :
              /\ i \in DOMAIN table
              /\ SameStats(table[i].ndvi_stats, compute_statistics(tasks[t].ndvi_array).value)
              /\ LET got == get_analysis(VegetationAnalysis(TRUE), table, i)
                 IN  /\ got.kind = "return"
                     /\ SameStats(got.value.metadata.stats,
                                  compute_statistics(tasks[t].ndvi_array).value)

\* C4: POST /vegetation/ndvi, given imagery and a 2-D grid with a valid pixel,
\* answers with an analysis_id, and a later GET /visualization/map/{id} for an
\* analysis that POST stored (served by an instance whose cache is empty)
\* answers with the map, not with an error.
C4_MapAfterPost ==
    /\ \A t \in Tasks :
          ( /\ http.route = "analyze_vegetation"
            /\ IsStoreCall(t) /\ Ended(t) /\ tasks[t].caller = "analyze_vegetation"
            /\ SqueezedNdim(tasks[t].ndvi_array) = 2 /\ HasValid(tasks[t].ndvi_array) )
          => http.status = 200
    /\ ( /\ http.route = "get_map"
         /\ \/ http.posted
            \/ http.id \in DOMAIN table /\ WrittenByStore(table[http.id]) )
       => http.status = 200

\* C5: get_analysis returns None and does not raise when the identifier is
\* neither in the cache nor in the table, with or without a session.
C5_AbsentIsNotFound ==
    ( /\ lastGet.called
      /\ lastGet.id \notin DOMAIN va._analyses
      /\ lastGet.id \notin DOMAIN table )
    => lastGet.out.kind = "none"

C5_Witness ==
    /\ lastGet.called
    /\ va.db
    /\ DOMAIN table # {}
    /\ lastGet.id \notin DOMAIN va._analyses
    /\ lastGet.id \notin DOMAIN table
    /\ lastGet.out.kind = "none"

\* C6: once store_analysis has run, its identifier is in the cache, and
\* get_analysis answers from the cache with the grid that was given: same
\* shape, same value at every valid pixel, every invalid pixel still invalid.
C6_CacheHitReturnsGivenGrid ==
    \A t \in Tasks :
        (IsStoreCall(t) /\ Ended(t) /\ SqueezedNdim(tasks[t].ndvi_array) = 2)
        => \E i \in IdsOf(t) :
              /\ i \in DOMAIN SelfOf(t)._analyses
              /\ get_analysis(SelfOf(t), table, i) = Returned(SelfOf(t)._analyses[i])
              /\ SameGrid(SelfOf(t)._analyses[i].ndvi_array, tasks[t].ndvi_array)

\* C7: two get_analysis calls with the same identifier and no store_analysis
\* between them give the same result: the same record, the same error, or
\* not-found both times.
C7_RetrievalIdempotent ==
    (lastGet.called /\ Len(lastGet.prev) > 0) => lastGet.prev[1] = lastGet.out

C7_Witness ==
    /\ lastGet.called
    /\ Len(lastGet.prev) > 0
    /\ lastGet.out.kind = "return"
    /\ lastGet.id \notin DOMAIN va._analyses

\* C8: a call runs its operation at most 3 times; it returns the identifier
\* of the first attempt that succeeds; when the third attempt fails it raises
\* that failure; and a call that has not ended can always take its next step.
C8_RetryBounded ==
    \A t \in Tasks :
        tasks[t].pc # "idle" =>
            LET c == tasks[t]
                n == Len(c.ids)
            IN  /\ n <= 3
                /\ c.pc = "attempt" => n < 3
                /\ c.pc = "sleep" => n < 3
                /\ c.pc = "returned" =>
                      /\ n >= 1
                      /\ c.excs[n] = None
                      /\ \A k \in 1..(n - 1) : c.excs[k] # None
                      /\ c.result = c.ids[n]
                /\ c.pc = "raised" =>
                      /\ n = 3
                      /\ \A k \in 1..n : c.excs[k] # None
                      /\ c.exc = c.excs[n]
                /\ Running(t) => ENABLED (Attempt(t) \/ Wake(t))

C8_Witness ==
    \E t \in Tasks :
        /\ tasks[t].pc = "raised"
        /\ tasks[t].attempt = max_retries - 1
        /\ Len(tasks[t].ids) = 3
        /\ tasks[t].exc = tasks[t].excs[3]
        /\ ~ENABLED (Attempt(t) \/ Wake(t))

\* C9: between a failed attempt and the start of the next one the session is
\* rolled back: while a call that has made attempts is about to make another,
\* the session holds no pending and no failed transaction, and with a session
\* configured the call has called rollback once for each attempt made.
C9_RolledBackBeforeRetry ==
    \A t \in Tasks :
        (tasks[t].pc \in {"attempt", "sleep"} /\ Len(tasks[t].ids) > 0)
        => /\ IsClean(SessionOf(t))
           /\ SelfOf(t).db => tasks[t].rolled = Len(tasks[t].ids)

C9_Witness ==
    \E t \in Tasks :
        /\ tasks[t].pc = "attempt"
        /\ tasks[t].attempt > 0
        /\ SelfOf(t).db
        /\ tasks[t].excs[Len(tasks[t].excs)] # None
        /\ tasks[t].rolled = tasks[t].attempt
        /\ SessionOf(t).rollbacks > 0

TransientErrors == {"OperationalError"}

\* C11: a store_analysis attempt that fails with a non-transient error (not a
\* connection error) is the only attempt of its call: the call raises at once,
\* it is never put to sleep for a retry and never runs a second attempt.
C11_NonTransientNotRetried ==
    \A t \in Tasks :
        ( /\ IsStoreCall(t)
          /\ Len(tasks[t].excs) > 0
          /\ tasks[t].excs[1] \notin TransientErrors \cup {None} )
        => /\ tasks[t].pc = "raised"
           /\ Len(tasks[t].ids) = 1

\* C12: a store_analysis call on a 2-D grid that has ended, with a session and
\* no storage failure, has returned an identifier, and of the identifiers it
\* generated exactly that one is in the cache and exactly that one has a row
\* in the table, whatever the metadata.
C12_OneWriteOneInsertion ==
    \A t \in Tasks :
        (IsStoreCall(t) /\ Ended(t) /\ SelfOf(t).db /\ SqueezedNdim(tasks[t].ndvi_array) = 2)
        => /\ tasks[t].pc = "returned"
           /\ {i \in IdsOf(t) : i \in DOMAIN SelfOf(t)._analyses} = {tasks[t].result}
           /\ {i \in IdsOf(t) : i \in DOMAIN table} = {tasks[t].result}

\* C13: the identifier a store_analysis call hands out (2-D grid, session,
\* name and bounding box given) is retrievable from the cache of the instance
\* that stored it, and is still retrievable by an instance whose cache is
\* empty (after a restart): stored(cached), then stored(durable only), never
\* nonexistent.
C13_RetrievableAfterCacheLoss ==
    \A t \in Tasks :
        ( /\ IsStoreCall(t) /\ Ended(t)
          /\ HasBbox(tasks[t].metadata) /\ HasName(tasks[t].metadata)
          /\ SqueezedNdim(tasks[t].ndvi_array) = 2 )
        => /\ tasks[t].pc = "returned"
           /\ SelfOf(t).db => get_analysis(SelfOf(t), table, tasks[t].result).kind = "return"
           /\ get_analysis(VegetationAnalysis(TRUE), table, tasks[t].result).kind = "return"

\* A step of a store_analysis or get_analysis call.
CallStep ==
    \/ \E t \in Tasks, g \in InputGrids, m \in Metadatas : store_analysis(t, g, m)
    \/ \E t \in Tasks : Attempt(t) \/ Wake(t)
    \/ \E i \in KnownIds : GetAnalysis(i)

\* C14: no step of a store_analysis or get_analysis call removes or changes
\* the cache entry or the table row of an identifier that exists before the
\* step; a step only adds entries under identifiers that did not exist.
C14_RecordsNeverChange ==
    [][CallStep =>
          /\ \A i \in DOMAIN table : i \in DOMAIN table' /\ table'[i] = table[i]
          /\ \A i \in DOMAIN va._analyses :
                i \in DOMAIN va'._analyses /\ va'._analyses[i] = va._analyses[i]
          /\ \A t \in Tasks :
                (tasks[t].pc # "idle" /\ tasks[t].caller # "direct")
                => \A i \in DOMAIN tasks[t].self._analyses :
                      /\ i \in DOMAIN tasks'[t].self._analyses
                      /\ tasks'[t].self._analyses[i] = tasks[t].self._analyses[i]]_vars

C14_Witness ==
    \E t \in Tasks :
        /\ IsStoreCall(t) /\ Ended(t)
        /\ lastGet.called
        /\ lastGet.id = StoredId
        /\ lastGet.out.kind = "return"
        /\ StoredId \in DOMAIN table

\* C15: once store_analysis has run on a 2-D grid (session, name and bounding
\* box given), the table holds, under an identifier of the call, a row with a
\* downsampled grid: every 10th row and every 10th column of the grid that
\* was given, each invalid sample written as null and not as a number.
C15_RowHoldsDownsampledGrid ==
    \A t \in Tasks :
        ( /\ IsStoreCall(t) /\ Ended(t)
          /\ SelfOf(t).db /\ HasBbox(tasks[t].metadata) /\ HasName(tasks[t].metadata)
          /\ SqueezedNdim(tasks[t].ndvi_array) = 2 )
        => LET g == tasks[t].ndvi_array
               rows == (Len(g) + 9) \div 10
               cols == (Len(g[1]) + 9) \div 10
               down == [r \in 1..rows |-> [c \in 1..cols |->
                           g[10 * (r - 1) + 1][10 * (c - 1) + 1]]]
           IN  \E i \in IdsOf(t) :
                  /\ i \in DOMAIN table
                  /\ "ndvi_array" \in DOMAIN table[i].ndvi_stats
                  /\ table[i].ndvi_stats.ndvi_array = ToJson(down)

\* C16: a record get_analysis returns says which representation it carries
\* (full resolution from the cache, downsampled from the table): it has a
\* field besides the grid and the metadata, or its metadata has a field
\* besides name, bbox, stats and the two urls.
C16_RecordStatesRepresentation ==
    (lastGet.called /\ lastGet.out.kind = "return")
    => \/ DOMAIN lastGet.out.value \ {"ndvi_array", "metadata"} # {}
       \/ DOMAIN lastGet.out.value.metadata
              \ {"name", "bbox", "stats", "red_url", "nir_url"} # {}

\* compute_ndvi has run on two bands that were fetched.
NdviRan == ndvi.pc \in {"computed", "statistics"} /\ ndvi.fetched
Pixels(g) == {<<r, c>> : r \in DOMAIN g, c \in DOMAIN g[1]}
Positive(x) == ~IsNan(x) /\ Val(x) > 0
AllPositive(g) == \A p \in Pixels(g) : Positive(g[p[1]][p[2]])
Constant(g, x) == \A p \in Pixels(g) : g[p[1]][p[2]] = x

\* C17: when the red and the NIR grid differ in shape, compute_ndvi raises:
\* it returns no index grid, and no statistics are computed, also for shapes
\* that broadcasting accepts (1 x n with m x n).
C17_ShapeMismatchRaises ==
    (NdviRan /\ Shape(ndvi.red) # Shape(ndvi.nir))
    => /\ ndvi.out.kind = "raise"
       /\ ndvi.pc # "statistics"

\* C18: for red and NIR grids of one shape whose samples are all positive and
\* finite, compute_ndvi returns a grid of that shape whose sample q at every
\* pixel satisfies q * (NIR + red) = NIR - red and -1 <= q <= 1; with red =
\* 100 and NIR = 300 everywhere q is 1/2 everywhere and min, max and mean of
\* the statistics are 1/2 (the mean as a float).
C18_IndexOfPositiveBands ==
    ( /\ NdviRan
      /\ Shape(ndvi.red) = Shape(ndvi.nir)
      /\ AllPositive(ndvi.red) /\ AllPositive(ndvi.nir) )
    => /\ ndvi.out.kind = "return"
       /\ Shape(ndvi.out.value) = Shape(ndvi.nir)
       /\ \A p \in Pixels(ndvi.nir) :
             LET q == ndvi.out.value[p[1]][p[2]]
                 red == Val(ndvi.red[p[1]][p[2]])
                 nir == Val(ndvi.nir[p[1]][p[2]])
             IN  /\ ~IsNan(q)
                 /\ Val(q) * (nir + red) = (nir - red) * Denom(q)
                 /\ -Denom(q) <= Val(q) /\ Val(q) <= Denom(q)
       /\ (Constant(ndvi.red, Num(100)) /\ Constant(ndvi.nir, Num(300)))
             => /\ Constant(ndvi.out.value, <<1, 2, "/">>)
                /\ ndvi.pc = "statistics"
                      => /\ ndvi.stats.exc = None
                         /\ ndvi.stats.value.min = <<1, 2, "/">>
                         /\ ndvi.stats.value.max = <<1, 2, "/">>
                         /\ ndvi.stats.value.mean = Float(<<1, 2, "/">>)

C18_Witness ==
    /\ ndvi.pc = "statistics"
    /\ ndvi.fetched
    /\ Shape(ndvi.red) = <<MaxDim, MaxDim>>
    /\ Constant(ndvi.red, Num(100)) /\ Constant(ndvi.nir, Num(300))
    /\ ndvi.stats.value.mean = Float(<<1, 2, "/">>)

\* C19: at every pixel where red <= 0 or NIR <= 0 the sample compute_ndvi
\* returns is invalid (nan): not zero, not the quotient.
C19_NonPositiveIsInvalid ==
    (NdviRan /\ Shape(ndvi.red) = Shape(ndvi.nir) /\ ndvi.out.kind = "return")
    => \A p \in Pixels(ndvi.nir) :
          LET red == ndvi.red[p[1]][p[2]]
              nir == ndvi.nir[p[1]][p[2]]
          IN  ( \/ ~IsNan(red) /\ Val(red) <= 0
                \/ ~IsNan(nir) /\ Val(nir) <= 0 )
              => IsNan(ndvi.out.value[p[1]][p[2]])

\* C20: on grids of one shape compute_ndvi does not raise, and at every pixel
\* where NIR + red is exactly zero the sample it returns is invalid (nan).
C20_ZeroDenominatorIsInvalid ==
    (NdviRan /\ Shape(ndvi.red) = Shape(ndvi.nir))
    => /\ ndvi.out.kind = "return"
       /\ \A p \in Pixels(ndvi.nir) :
             LET red == ndvi.red[p[1]][p[2]]
                 nir == ndvi.nir[p[1]][p[2]]
             IN  (~IsNan(red) /\ ~IsNan(nir) /\ Val(nir) + Val(red) = 0)
                 => IsNan(ndvi.out.value[p[1]][p[2]])

\* C21: on red and NIR grids of one shape, zero and negative samples
\* included, every sample of the grid compute_ndvi returns is invalid (nan)
\* or lies in [-1, 1].
C21_IndexWithinRange ==
    (NdviRan /\ Shape(ndvi.red) = Shape(ndvi.nir) /\ ndvi.out.kind = "return")
    => \A p \in Pixels(ndvi.nir) :
          LET q == ndvi.out.value[p[1]][p[2]]
          IN  IsNan(q) \/ (-Denom(q) <= Val(q) /\ Val(q) <= Denom(q))

\* The valid samples of a grid, in row-major order.
ValidSamples(g) == SelectSeq(Flatten(g), LAMBDA x : ~IsNan(x))

\* C22: the statistics compute_statistics returns are taken over the valid
\* samples only: min and max are valid samples of the grid, min is below and
\* max above every valid sample, mean is the float64 mean of the valid
\* samples, and min <= mean <= max.
C22_StatisticsOverValidPixels ==
    (ndvi.pc = "statistics" /\ ndvi.stats.exc = None)
    => LET valid == ValidSamples(ndvi.out.value)
           st == ndvi.stats.value
       IN  /\ Len(valid) > 0
           /\ \E k \in DOMAIN valid : valid[k] = st.min
           /\ \E k \in DOMAIN valid : valid[k] = st.max
           /\ \A k \in DOMAIN valid : Le(st.min, valid[k]) /\ Le(valid[k], st.max)
           /\ st.mean = Mean(valid)
           /\ FloatLe(Float(st.min), st.mean) /\ FloatLe(st.mean, Float(st.max))

\* C24: when a band fetch gets a status other than 200, compute_ndvi raises
\* the error of that fetch and returns no grid; it never requests a url
\* twice, and it does not request the NIR band when the red fetch failed.
C24_FetchFailureSurfaced ==
    ndvi.pc \in {"computed", "statistics"}
    => /\ ~ndvi.fetched
          => /\ ndvi.out.kind = "raise"
             /\ ndvi.out.exc = "Exception"
             /\ ndvi.pc # "statistics"
       /\ \A j, k \in DOMAIN ndvi.requests : ndvi.requests[j] = ndvi.requests[k] => j = k
       /\ ndvi.status[1] # 200 => ndvi.requests = <<"red_url">>

C24_Witness ==
    /\ ndvi.pc = "computed"
    /\ ndvi.status = <<404, 200>>
    /\ ndvi.out.kind = "raise"
    /\ ndvi.requests = <<"red_url">>

\* A number that is neither nan nor the fill value of np.nan_to_num.
Measured(x) == ~IsNan(x) /\ x # Num(NAN_FILL) /\ x # Float(Num(NAN_FILL))

\* C23: on a grid with no valid sample (all nan, or empty) compute_statistics
\* raises; statistics it returns have a min, max and mean that are numbers and
\* not the fill value; and no row a store_analysis call wrote holds a min, max
\* or mean that is nan or the fill value.
C23_NoStatisticsOfEmptyData ==
    /\ (ndvi.pc = "statistics" /\ Len(ValidSamples(ndvi.out.value)) = 0)
          => ndvi.stats.exc = "ValueError"
    /\ (ndvi.pc = "statistics" /\ ndvi.stats.exc = None)
          => /\ Measured(ndvi.stats.value.min)
             /\ Measured(ndvi.stats.value.max)
             /\ Measured(ndvi.stats.value.mean)
    /\ \A t \in Tasks :
          IsStoreCall(t) =>
             \A i \in IdsOf(t) :
                i \in DOMAIN table
                => /\ Measured(table[i].ndvi_stats.min)
                   /\ Measured(table[i].ndvi_stats.max)
                   /\ Measured(table[i].ndvi_stats.mean)

C23_Witness ==
    /\ ndvi.pc = "statistics"
    /\ ndvi.out.value = GridInvalid
    /\ ndvi.stats.exc = "ValueError"
    /\ \E t \in Tasks :
          /\ IsStoreCall(t) /\ Ended(t)
          /\ tasks[t].ndvi_array = GridInvalid
          /\ SelfOf(t).db /\ HasBbox(tasks[t].metadata)

\* The columns of a complete record (models/vegetation.py:14-21, without the
\* timestamp).
RecordColumns == {"id", "name", "bbox", "geometry", "ndvi_stats", "red_url", "nir_url"}

C26_ConcurrentStoresKeepBoth ==
    /\ \A t \in Tasks :
          ( /\ IsStoreCall(t) /\ Ended(t)
            /\ SelfOf(t).db /\ HasBbox(tasks[t].metadata) /\ HasName(tasks[t].metadata)
            /\ SqueezedNdim(tasks[t].ndvi_array) = 2 )
          => /\ tasks[t].pc = "returned"
             /\ tasks[t].result \in DOMAIN SelfOf(t)._analyses
             /\ SelfOf(t)._analyses[tasks[t].result].metadata = tasks[t].metadata
             /\ tasks[t].result \in DOMAIN table
    /\ \A t, u \in Tasks :
          (t # u /\ tasks[t].pc # "idle" /\ tasks[u].pc # "idle")
          => IdsOf(t) \cap IdsOf(u) = {}

\* C27: every error answer of the analysis pipeline (POST /vegetation/ndvi)
\* names the stage that failed and the asset URL or identifier concerned, and
\* its text is not the raw text of the exception the store call raised.
C27_ErrorsNameStage ==
    (http.route = "analyze_vegetation" /\ http.status = 500)
    => /\ {"stage", "context"} \subseteq DOMAIN http
       /\ \A t \in Tasks : tasks[t].pc = "raised" => http.detail # tasks[t].exc

\* C28: after a store_analysis call that ended by raising, the cache holds no
\* entry under any identifier generated in its attempts, and with a database
\* configured every identifier of the cache has a row in the table.
C28_NoCacheEntryAfterFailure ==
    /\ \A t \in Tasks :
          (IsStoreCall(t) /\ tasks[t].pc = "raised")
          => IdsOf(t) \cap DOMAIN SelfOf(t)._analyses = {}
    /\ \A t \in Tasks :
          (IsStoreCall(t) /\ tasks[t].pc = "raised" /\ SelfOf(t).db)
          => DOMAIN SelfOf(t)._analyses \subseteq DOMAIN table

C28_Witness ==
    \E t \in Tasks :
        /\ IsStoreCall(t)
        /\ tasks[t].pc = "raised"
        /\ Len(tasks[t].ids) = max_retries
        /\ SelfOf(t).db
        /\ SqueezedNdim(tasks[t].ndvi_array) = 2
        /\ HasBbox(tasks[t].metadata) /\ HasName(tasks[t].metadata)
        /\ IdsOf(t) \cap DOMAIN SelfOf(t)._analyses = {}

\* C29: a get_analysis call leaves the cache, the table and the session as
\* they were, whatever it returns or raises; after a hit on the durable path
\* (the record carries the row's stats) the identifier is still not in the
\* cache, so the next retrieval reads the table again.
C29_GetAnalysisChangesNothing ==
    [][(\E i \in KnownIds : GetAnalysis(i))
         => /\ va' = va
            /\ table' = table
            /\ session' = session
            /\ ( /\ lastGet'.out.kind = "return"
                 /\ "stats" \in DOMAIN lastGet'.out.value.metadata )
               => lastGet'.id \notin DOMAIN va'._analyses]_vars

C29_Witness ==
    /\ va.db
    /\ lastGet.called
    /\ lastGet.id \in DOMAIN table
    /\ Len(lastGet.prev) > 0
    /\ lastGet.prev[1].kind = "return"
    /\ "stats" \in DOMAIN lastGet.prev[1].value.metadata
    /\ lastGet.out.kind = "return"
    /\ "stats" \in DOMAIN lastGet.out.value.metadata
    /\ DOMAIN va._analyses = {}

\* C30: the two map routes answer 404 when get_analysis finds no record for
\* the identifier, never the status of internal failures (500).
C30_MissingRecordIs404 ==
    ( /\ http.route \in {"get_map", "get_ndvi_map"}
      /\ get_analysis(VegetationAnalysis(TRUE), table, http.id).kind = "none" )
    => http.status = 404

\* C31: a POST /vegetation/ndvi whose search found imagery and whose index
\* grid is 2-D with a valid pixel answers, once its store call has ended,
\* with status 200, and the statistics of the answer are the statistics of
\* the row the table holds under the analysis_id of the answer.
C31_ResponseStatisticsArePersisted ==
    \A t \in Tasks :
        ( /\ IsStoreCall(t) /\ Ended(t)
          /\ tasks[t].caller = "analyze_vegetation"
          /\ SqueezedNdim(tasks[t].ndvi_array) = 2
          /\ HasValid(tasks[t].ndvi_array) )
        => /\ http.route = "analyze_vegetation"
           /\ http.status = 200
           /\ http.analysis_id \in DOMAIN table
           /\ SameStats(table[http.analysis_id].ndvi_stats, http.statistics)

====
